---- MODULE Spec2Model ----
(***************************************************************************)
(* State-machine model of data/networks/combine.py: two GraphML graphs     *)
(* (drive, walk) are read, converted by graph_to_matsim into one MATSim    *)
(* network element tree, and written as <name>.xml and <name>.xml.gz.      *)
(* A second state machine, SpecCompare, models compare_runs of              *)
(* scripts/compare_drt_runs.py with aggregate_kpis of                      *)
(* scripts/aggregate_drt_kpis.py.                                          *)
(*                                                                         *)
(* Representation                                                          *)
(*  - a Python float f is the integer round(f * UNIT) (fixed point, one    *)
(*    unit = 0.0002); products are rescaled by UNIT;                       *)
(*  - a Python str that is concatenated or sliced (node ids, link ids,     *)
(*    file names) is a sequence of one-character strings;                  *)
(*  - a GraphML attribute value is a tagged record (Num, Str, Bool), and   *)
(*    None stands for an absent key, as dict.get returns it.               *)
(***************************************************************************)
EXTENDS Integers, Sequences, FiniteSets, TLC

\* ------------------------------------------------------------------ bounds
MaxNodes == 2
MaxEdges == 1
MaxNameLen == 4
MaxLinkEdges == 2
MaxRunIds == 2

\* ------------------------------------------------------- fixed-point floats
UNIT == 5 * 1000

\* a / b rounded towards zero (b > 0): keeps the model's arithmetic symmetric
\* in the sign of a, as floating-point division is.
Quot(a, b) == IF a >= 0 THEN a \div b ELSE -((-a) \div b)

\* a / b rounded to the nearest integer (b > 0), a tie away from zero.
RoundDiv(a, b) == IF a >= 0 THEN (a + b \div 2) \div b
                  ELSE -((-a + b \div 2) \div b)

\* f"{v:.3f}": the decimal string with three places, held as the count of
\* thousandths it denotes (a thousandth is an odd number of units: no ties).
Format3(v) == RoundDiv(v, UNIT \div 1000)

\* f"{v:.1f}": the decimal string with one place, held as the count of tenths.
Format1(v) == RoundDiv(v, UNIT \div 10)

\* ------------------------------------------------------------- constants
CAR_DEFAULT_SPEED == 15 * UNIT
WALK_DEFAULT_SPEED == (14 * UNIT) \div 10
DEFAULT_CAPACITY == 1000 * UNIT
DEFAULT_LANES == 1
MATSim_DOCTYPE ==
    "<!DOCTYPE network SYSTEM \"http://www.matsim.org/files/dtd/network_v2.dtd\">\n"
XML_DECLARATION == "<?xml version=\"1.0\" encoding=\"utf-8\"?>\n"

\* --------------------------------------------------------- attribute values
None == [t |-> "none", n |-> 0, s |-> ""]
Num(n) == [t |-> "num", n |-> n, s |-> ""]
Str(s) == [t |-> "str", n |-> 0, s |-> s]
Bool(b) == [t |-> "bool", n |-> IF b THEN 1 ELSE 0, s |-> ""]

\* Python truth value of an attribute value (None, 0, 0.0, False, "" are falsy).
Truthy(v) ==
    CASE v.t = "none" -> FALSE
      [] v.t = "num" -> v.n # 0
      [] v.t = "bool" -> v.n = 1
      [] v.t = "str" -> v.s # ""

\* Python `a or b`.
Or(a, b) == IF Truthy(a) THEN a ELSE b

\* float(v): [ok |-> TRUE, val |-> f] or [ok |-> FALSE] (ValueError/TypeError).
Float(v) ==
    CASE v.t = "num" -> [ok |-> TRUE, val |-> v.n]
      [] v.t = "bool" -> [ok |-> TRUE, val |-> v.n * UNIT]
      [] v.t = "str" ->
           IF v.s = "1" THEN [ok |-> TRUE, val |-> UNIT]
           ELSE IF v.s = "0" THEN [ok |-> TRUE, val |-> 0]
           ELSE [ok |-> FALSE, val |-> 0]
      [] v.t = "none" -> [ok |-> FALSE, val |-> 0]

\* str(v).lower() on the values an attribute of the inputs takes.
StrLower(v) ==
    CASE v.t = "bool" -> IF v.n = 1 THEN "true" ELSE "false"
      [] v.t = "num" -> IF v.n = UNIT THEN "1.0" ELSE IF v.n = 0 THEN "0.0" ELSE "float"
      [] v.t = "none" -> "none"
      [] v.t = "str" ->
           CASE v.s = "True" -> "true"
             [] v.s = "TRUE" -> "true"
             [] v.s = "Yes" -> "yes"
             [] v.s = "YES" -> "yes"
             [] v.s = "False" -> "false"
             [] v.s = "No" -> "no"
             [] OTHER -> v.s

\* ---------------------------------------------------------------- helpers
\* math.radians on a fixed-point angle in degrees.
Radians(deg) == Quot(deg * 17453, 1000000)

\* math.sin, math.cos: Taylor polynomials in fixed point (the inputs of the
\* model are within a few degrees of zero).
Sin(x) == x - Quot(x * x * x, 6 * UNIT * UNIT)
Cos(x) == UNIT - Quot(x * x, 2 * UNIT)

\* math.sqrt of a value held at scale UNIT * UNIT, result at scale UNIT
\* (Newton's iteration for the integer square root).
RECURSIVE SqrtIter(_, _)
SqrtIter(n, r) ==
    LET next == (r + n \div r) \div 2
    IN  IF next >= r THEN r ELSE SqrtIter(n, next)
Sqrt(n) == IF n <= 0 THEN 0 ELSE SqrtIter(n, n)

\* math.atan2(y, x) for y >= 0, x >= 0.
Atan2(y, x) ==
    IF x = 0 THEN IF y = 0 THEN 0 ELSE Quot(31416 * UNIT, 20000)
    ELSE IF y > x THEN Quot(31416 * UNIT, 20000)
                       - (LET z == Quot(x * UNIT, y) IN z - Quot(z * z * z, 3 * UNIT * UNIT))
    ELSE LET z == Quot(y * UNIT, x) IN z - Quot(z * z * z, 3 * UNIT * UNIT)

\* haversine(lon1, lat1, lon2, lat2): great-circle distance in metres.  `a`
\* is held at scale UNIT * UNIT; R is in whole metres, so 2 * R * angle is
\* the distance in fixed-point metres.
haversine(lon1, lat1, lon2, lat2) ==
    LET R == 6371000
        phi1 == Radians(lat1)
        phi2 == Radians(lat2)
        dphi == phi2 - phi1
        dlambda == Radians(lon2 - lon1)
        sp == Sin(Quot(dphi, 2))
        sl == Sin(Quot(dlambda, 2))
        a == sp * sp + Quot(Quot(Cos(phi1) * Cos(phi2), UNIT) * sl * sl, UNIT)
    IN  2 * R * Atan2(Sqrt(a), Sqrt(UNIT * UNIT - a))

\* transformer.transform(lon, lat): WGS84 -> planar metres.  pyproj is an
\* external library; the model keeps what the code relies on, a total
\* function of (lon, lat) that never returns None (here in whole metres).
transform(lon, lat) ==
    <<1000000 + Quot(111000 * lon, UNIT), 2000000 + Quot(111000 * lat, UNIT)>>

\* ---------------------------------------------------------------- strings
\* str(n) for n >= 0: the decimal digits.
DigitChar(d) ==
    CASE d = 0 -> "0" [] d = 1 -> "1" [] d = 2 -> "2" [] d = 3 -> "3" [] d = 4 -> "4"
      [] d = 5 -> "5" [] d = 6 -> "6" [] d = 7 -> "7" [] d = 8 -> "8" [] d = 9 -> "9"
RECURSIVE IntToStr(_)
IntToStr(n) == IF n < 10 THEN <<DigitChar(n)>>
               ELSE Append(IntToStr(n \div 10), DigitChar(n % 10))

DotGz == <<".", "g", "z">>

\* ------------------------------------------------------------ XML builders
\* build_network_root(): <network><nodes/><links/></network>.
build_network_root == [nodes |-> <<>>, links |-> <<>>]

\* add_node(root, node_id, x, y); f"{x}" is the float's repr, which denotes
\* the same float.
add_node(root, node_id, x, y) ==
    [root EXCEPT !.nodes = Append(@, [id |-> node_id, x |-> x, y |-> y])]

\* add_link(root, link_id, from_id, to_id, length, freespeed, modes) with the
\* default capacity and permlanes; length, freespeed and capacity are
\* formatted to a fixed number of places.
add_link(root, link_id, from_id, to_id, length, freespeed, modes) ==
    [root EXCEPT !.links = Append(@,
        [id |-> link_id, from |-> from_id, to |-> to_id,
         length |-> Format3(length), freespeed |-> Format3(freespeed),
         capacity |-> Format1(DEFAULT_CAPACITY), permlanes |-> DEFAULT_LANES,
         modes |-> modes])]

\* ------------------------------------------------------------- ElementPath
\* root.find(path) of xml.etree: the path is cut into tokens, the tokens are
\* compiled into a list of selectors, and the selectors are run from the
\* root element.  The ids of the model hold no ":" and no "{" (namespaces).

\* f"nodes/node[@id='{pid}']"
NodePath(pid) ==
    <<"n", "o", "d", "e", "s", "/", "n", "o", "d", "e", "[", "@", "i", "d", "=", "'">>
    \o pid \o <<"'", "]">>

\* A token as xpath_tokenizer yields it: (type, text).  The type is "" for a
\* name, "'" for a quoted string and the operator itself otherwise.
Token(type, text) == [type |-> type, text |-> text]

Least(S) == CHOOSE m \in S : \A n \in S : m <= n

\* The characters a name does not hold: / [ ] ( ) @ ! = and white space.
NameStops == {"/", "[", "]", "(", ")", "@", "!", "=", " "}

\* The two-character operators and the one-character operators.
Digraphs == {<<":", ":">>, <<"/", "/">>, <<".", ".">>, <<"(", ")">>, <<"!", "=">>}
DigraphType(c, d) ==
    CASE c = ":" -> "::" [] c = "/" -> "//" [] c = "." -> ".." [] c = "(" -> "()"
      [] c = "!" -> "!="
Monographs == {"/", ".", "*", ":", "[", "]", "(", ")", "@", "="}

\* One match of xpath_tokenizer_re at position k: the first alternative that
\* matches, as long as it can be; its tokens (none for a character that no
\* alternative matches) and the position after it.
xpath_match(s, k) ==
    LET c == s[k]
        d == IF k < Len(s) THEN s[k + 1] ELSE ""
        closing == {j \in (k + 1)..Len(s) : s[j] = c}
        stops == {j \in k..Len(s) : s[j] \in NameStops}
        nameEnd == IF stops = {} THEN Len(s) ELSE Least(stops) - 1
    IN  IF c \in {"'", "\""} /\ closing # {}
        THEN [tokens |-> <<Token("'", SubSeq(s, k + 1, Least(closing) - 1))>>,
              next |-> Least(closing) + 1]
        ELSE IF <<c, d>> \in Digraphs
        THEN [tokens |-> <<Token(DigraphType(c, d), <<>>)>>, next |-> k + 2]
        ELSE IF c \in Monographs
        THEN [tokens |-> <<Token(c, <<>>)>>, next |-> k + 1]
        ELSE IF c = "!" THEN [tokens |-> <<>>, next |-> k + 1]
        ELSE IF c = " " THEN [tokens |-> <<Token("", <<>>)>>, next |-> k + 1]
        ELSE [tokens |-> <<Token("", SubSeq(s, k, nameEnd))>>, next |-> nameEnd + 1]

\* xpath_tokenizer_re.findall(pattern) from position k on.
RECURSIVE xpath_tokenizer(_, _)
xpath_findall(s, m) == m.tokens \o xpath_tokenizer(s, m.next)
xpath_tokenizer(s, k) ==
    IF k > Len(s) THEN <<>> ELSE xpath_findall(s, xpath_match(s, k))

\* re.match(r"\-?\d+$", text) and int(text).
DigitChars == {"0", "1", "2", "3", "4", "5", "6", "7", "8", "9"}
IsDigits(text) == text # <<>> /\ \A k \in 1..Len(text) : text[k] \in DigitChars
IsInteger(text) ==
    IsDigits(text) \/ (Len(text) > 1 /\ text[1] = "-" /\ IsDigits(Tail(text)))
DigitValue(c) == CHOOSE n \in 0..9 :
    c = <<"0", "1", "2", "3", "4", "5", "6", "7", "8", "9">>[n + 1]
RECURSIVE ToInt(_)
ToInt(text) ==
    IF text[1] = "-" THEN -ToInt(Tail(text))
    ELSE IF Len(text) = 1 THEN DigitValue(text[1])
    ELSE 10 * ToInt(SubSeq(text, 1, Len(text) - 1)) + DigitValue(text[Len(text)])

\* A compiled selector: what it does, and the key, value or index it uses;
\* the outcome of compiling one step: an error or a selector, and the
\* position of the token after the step.
Selector(op, key, value, index) ==
    [op |-> op, key |-> key, value |-> value, index |-> index]
Compiled(sel, next) == [err |-> "", sel |-> sel, next |-> next]
Raised(err, next) == [err |-> err, sel |-> Selector("none", <<>>, <<>>, 0), next |-> next]

\* [index], [last()] and [last()-index]: the position counted from zero, or
\* from the end when negative.
index_predicate(signature, predicate, next) ==
    IF signature = <<"-">>
    THEN IF ToInt(predicate[1]) - 1 < 0 THEN Raised("SyntaxError", next)
         ELSE Compiled(Selector("index", <<>>, <<>>, ToInt(predicate[1]) - 1), next)
    ELSE IF predicate[1] # <<"l", "a", "s", "t">> THEN Raised("SyntaxError", next)
    ELSE IF signature = <<"-", "()">>
    THEN Compiled(Selector("index", <<>>, <<>>, -1), next)
    ELSE IF ~IsInteger(predicate[3]) THEN Raised("SyntaxError", next)
    ELSE IF ToInt(predicate[3]) - 1 > -2 THEN Raised("SyntaxError", next)
    ELSE Compiled(Selector("index", <<>>, <<>>, ToInt(predicate[3]) - 1), next)

\* The predicate a signature stands for ("invalid predicate" otherwise).
predicate_selector(signature, predicate, next) ==
    IF signature = <<"@", "-">>
    THEN Compiled(Selector("has_attr", predicate[2], <<>>, 0), next)
    ELSE IF signature = <<"@", "-", "=", "'">>
    THEN Compiled(Selector("attr_eq", predicate[2], predicate[4], 0), next)
    ELSE IF signature = <<"@", "-", "!=", "'">>
    THEN Compiled(Selector("attr_ne", predicate[2], predicate[4], 0), next)
    ELSE IF signature = <<"-">> /\ ~IsInteger(predicate[1])
    THEN Compiled(Selector("has_child", predicate[1], <<>>, 0), next)
    ELSE IF signature = <<".", "=", "'">>
    THEN Compiled(Selector("text_eq", <<>>, predicate[3], 0), next)
    ELSE IF signature = <<".", "!=", "'">>
    THEN Compiled(Selector("text_ne", <<>>, predicate[3], 0), next)
    ELSE IF signature = <<"-", "=", "'">> /\ ~IsInteger(predicate[1])
    THEN Compiled(Selector("child_text_eq", predicate[1], predicate[3], 0), next)
    ELSE IF signature = <<"-", "!=", "'">> /\ ~IsInteger(predicate[1])
    THEN Compiled(Selector("child_text_ne", predicate[1], predicate[3], 0), next)
    ELSE IF signature \in {<<"-">>, <<"-", "()">>, <<"-", "()", "-">>}
    THEN index_predicate(signature, predicate, next)
    ELSE Raised("SyntaxError", next)

\* The signature and the texts of the tokens of a predicate (white space
\* left out): "-" for a name, "'" for a string, the operator otherwise.
predicate_body(body, next) ==
    predicate_selector([j \in 1..Len(body) |->
                           IF body[j].type = "" THEN "-" ELSE body[j].type],
                       [j \in 1..Len(body) |-> body[j].text], next)

\* prepare_predicate(next, token): the tokens from k up to the next "]".  A
\* path that ends before the "]" compiles to None, which fails when run.
prepare_predicate(toks, k) ==
    LET ends == {j \in k..Len(toks) : toks[j].type = "]"}
    IN  IF ends = {} THEN Raised("TypeError", Len(toks) + 1)
        ELSE predicate_body(SelectSeq(SubSeq(toks, k, Least(ends) - 1),
                                      LAMBDA t : t # Token("", <<>>)),
                            Least(ends) + 1)

\* prepare_descendant(next, token): "//" takes the name (or "*") after it.
prepare_descendant(toks, k) ==
    IF k > Len(toks) THEN Raised("SyntaxError", k)
    ELSE IF toks[k].type = "*"
    THEN Compiled(Selector("descendant", <<"*">>, <<>>, 0), k + 1)
    ELSE IF toks[k].type = ""
    THEN Compiled(Selector("descendant", toks[k].text, <<>>, 0), k + 1)
    ELSE Raised("SyntaxError", k + 1)

\* ops[token[0]](next, token): the step that starts at token k (KeyError
\* when the token starts no step).
prepare_step(toks, k) ==
    CASE toks[k].type = "" -> Compiled(Selector("child", toks[k].text, <<>>, 0), k + 1)
      [] toks[k].type = "*" -> Compiled(Selector("star", <<>>, <<>>, 0), k + 1)
      [] toks[k].type = "." -> Compiled(Selector("self", <<>>, <<>>, 0), k + 1)
      [] toks[k].type = ".." -> Compiled(Selector("parent", <<>>, <<>>, 0), k + 1)
      [] toks[k].type = "//" -> prepare_descendant(toks, k + 1)
      [] toks[k].type = "[" -> prepare_predicate(toks, k + 1)
      [] OTHER -> Raised("KeyError", k + 1)

\* The loop of iterfind that compiles the path: one step after the other, a
\* "/" between two steps skipped.
RECURSIVE compile(_, _)
compile_rest(step, rest) ==
    [err |-> rest.err, selector |-> <<step.sel>> \o rest.selector]
compile_from(toks, step, after) ==
    IF step.err # "" THEN [err |-> step.err, selector |-> <<>>]
    ELSE IF after > Len(toks) THEN [err |-> "", selector |-> <<step.sel>>]
    ELSE compile_rest(step, compile(toks, after))
compile_step(toks, step) ==
    compile_from(toks, step,
                 IF step.next <= Len(toks) /\ toks[step.next].type = "/"
                 THEN step.next + 1 ELSE step.next)
compile(toks, k) == compile_step(toks, prepare_step(toks, k))

\* The element tree under the root: <network>, its <nodes> and <links>, and
\* their <node> and <link> children in document order.
Elem(tag, n) == [tag |-> tag, n |-> n]
TagName(e) ==
    CASE e.tag = "network" -> <<"n", "e", "t", "w", "o", "r", "k">>
      [] e.tag = "nodes" -> <<"n", "o", "d", "e", "s">>
      [] e.tag = "links" -> <<"l", "i", "n", "k", "s">>
      [] e.tag = "node" -> <<"n", "o", "d", "e">>
      [] e.tag = "link" -> <<"l", "i", "n", "k">>
Children(root, e) ==
    CASE e.tag = "network" -> {Elem("nodes", 1), Elem("links", 1)}
      [] e.tag = "nodes" -> {Elem("node", k) : k \in 1..Len(root.nodes)}
      [] e.tag = "links" -> {Elem("link", k) : k \in 1..Len(root.links)}
      [] OTHER -> {}
Parents(e) ==
    CASE e.tag = "network" -> {}
      [] e.tag \in {"nodes", "links"} -> {Elem("network", 0)}
      [] e.tag = "node" -> {Elem("nodes", 1)}
      [] e.tag = "link" -> {Elem("links", 1)}
RECURSIVE Descendants(_, _, _)
Descendants(root, e, depth) ==
    IF depth = 0 THEN {}
    ELSE Children(root, e)
         \cup UNION {Descendants(root, c, depth - 1) : c \in Children(root, e)}

\* elem.get(key) for the attributes that hold text in the model: the ids
\* and the end points (the numeric attributes are not named by any path).
Attrib(root, e) ==
    CASE e.tag = "node" -> [key \in {<<"i", "d">>} |-> root.nodes[e.n].id]
      [] e.tag = "link" ->
           [key \in {<<"i", "d">>, <<"f", "r", "o", "m">>, <<"t", "o">>} |->
              IF key = <<"i", "d">> THEN root.links[e.n].id
              ELSE IF key = <<"t", "o">> THEN root.links[e.n].to
              ELSE root.links[e.n].from]
      [] OTHER -> [key \in {} |-> <<>>]

\* "".join(elem.itertext()): no element of the tree holds text before
\* write_outputs indents it.
IterText(e) == <<>>

\* One selector applied to a set of elements.
Select(root, sel, result) ==
    LET named(e, tag) == {c \in Children(root, e) : TagName(c) = tag}
    IN  CASE sel.op = "child" -> UNION {named(e, sel.key) : e \in result}
          [] sel.op = "star" -> UNION {Children(root, e) : e \in result}
          [] sel.op = "self" -> result
          [] sel.op = "parent" -> UNION {Parents(e) : e \in result}
          [] sel.op = "descendant" ->
               {c \in UNION {Descendants(root, e, 2) : e \in result} :
                   sel.key = <<"*">> \/ TagName(c) = sel.key}
          [] sel.op = "has_attr" ->
               {e \in result : sel.key \in DOMAIN Attrib(root, e)}
          [] sel.op = "attr_eq" ->
               {e \in result : /\ sel.key \in DOMAIN Attrib(root, e)
                               /\ Attrib(root, e)[sel.key] = sel.value}
          [] sel.op = "attr_ne" ->
               {e \in result : /\ sel.key \in DOMAIN Attrib(root, e)
                               /\ Attrib(root, e)[sel.key] # sel.value}
          [] sel.op = "has_child" -> {e \in result : named(e, sel.key) # {}}
          [] sel.op = "text_eq" -> {e \in result : IterText(e) = sel.value}
          [] sel.op = "text_ne" -> {e \in result : IterText(e) # sel.value}
          [] sel.op = "child_text_eq" ->
               {e \in result : \E c \in named(e, sel.key) : IterText(c) = sel.value}
          [] sel.op = "child_text_ne" ->
               {e \in result : \E c \in named(e, sel.key) : IterText(c) # sel.value}
          [] sel.op = "index" ->
               {e \in result : /\ e.tag # "network"
                               /\ \/ sel.index >= 0 /\ e.n = sel.index + 1
                                  \/ /\ sel.index < 0
                                     /\ e.n = Cardinality({c \in Children(root, CHOOSE p \in Parents(e) : TRUE) : c.tag = e.tag}) + sel.index + 1}

RECURSIVE iterfind(_, _, _, _)
iterfind(root, selector, k, result) ==
    IF k > Len(selector) THEN result
    ELSE iterfind(root, selector, k + 1, Select(root, selector[k], result))

\* root.find(path) is not None, or the error the path raises.
find_compiled(root, c) ==
    IF c.err # "" THEN [err |-> c.err, found |-> FALSE]
    ELSE [err |-> "",
          found |-> iterfind(root, c.selector, 1, {Elem("network", 0)}) # {}]
find(root, path) == find_compiled(root, compile(xpath_tokenizer(path, 1), 1))

\* root.find(f"nodes/node[@id='{pid}']")
find_node(root, pid) == find(root, NodePath(pid))

\* ------------------------------------------------------- graph -> MATSim
\* The arguments main passes to the two graph_to_matsim calls.
NodePrefix(call) == IF call = "drive" THEN <<"v", "_">> ELSE <<"p", "_">>
LinkPrefix(call) == IF call = "drive" THEN <<"c", "a", "r", "_">>
                    ELSE <<"w", "a", "l", "k", "_">>
DefaultSpeed(call) == IF call = "drive" THEN CAR_DEFAULT_SPEED ELSE WALK_DEFAULT_SPEED
Modes(call) == IF call = "drive" THEN "car" ELSE "walk"

\* g.nodes[nid]: the attribute mapping of the node with this id.
NodeData(g, nid) ==
    g.nodes[CHOOSE k \in 1..Len(g.nodes) : g.nodes[k].id = nid]

\* pid = f"{node_prefix}{nid}"
Pid(node_prefix, nid) == node_prefix \o nid

\* lon = attrs.get("x") or attrs.get("lon") or attrs.get("lng")
NodeLon(attrs) == Or(Or(attrs.x, attrs.lon), attrs.lng)
\* lat = attrs.get("y") or attrs.get("lat")
NodeLat(attrs) == Or(attrs.y, attrs.lat)

\* Mutant of node_iteration: the presence check uses the prefixed id, the
\* element is added under the raw id.
node_iteration_raw_id(root, node_prefix, nid, attrs) ==
    LET pid == Pid(node_prefix, nid)
        lon == NodeLon(attrs)
        lat == NodeLat(attrs)
    IN  IF lon = None \/ lat = None
        THEN [err |-> "MissingCoordinate", root |-> root]
        ELSE IF ~Float(lon).ok \/ ~Float(lat).ok
        THEN [err |-> "MalformedNumeric", root |-> root]
        ELSE LET xy == transform(Float(lon).val, Float(lat).val)
                 f == find_node(root, pid)
             IN  IF f.err # "" THEN [err |-> f.err, root |-> root]
                 ELSE IF f.found THEN [err |-> "", root |-> root]
                 ELSE [err |-> "", root |-> add_node(root, nid, xy[1], xy[2])]

\* One iteration of the node loop on the root: the error it raises ("" for
\* none; root.find raises on a path it cannot compile) and the root it leaves.
node_iteration(root, node_prefix, nid, attrs) ==
    LET pid == Pid(node_prefix, nid)
        lon == NodeLon(attrs)
        lat == NodeLat(attrs)
    IN  IF lon = None \/ lat = None
        THEN [err |-> "MissingCoordinate", root |-> root]
        ELSE IF ~Float(lon).ok \/ ~Float(lat).ok
        THEN [err |-> "MalformedNumeric", root |-> root]
        ELSE LET xy == transform(Float(lon).val, Float(lat).val)
                 f == find_node(root, pid)
             IN  IF f.err # "" THEN [err |-> f.err, root |-> root]
                 ELSE IF f.found THEN [err |-> "", root |-> root]
                 ELSE [err |-> "", root |-> add_node(root, pid, xy[1], xy[2])]

\* length = float(edata.get("distance") or edata.get("length") or 0.0)
ExplicitLength(edata) == Float(Or(Or(edata.distance, edata.length), Num(0)))

\* The fallback of a zero length: g.nodes[u]["x"], ["y"] (KeyError when the
\* key is absent), float() of each, then haversine.
FallbackLength(g, u, v) ==
    LET nu == NodeData(g, u).attrs
        nv == NodeData(g, v).attrs
    IN  IF nu.x = None \/ nu.y = None \/ nv.x = None \/ nv.y = None
        THEN [err |-> "KeyError", val |-> 0]
        ELSE IF ~Float(nu.x).ok \/ ~Float(nu.y).ok \/ ~Float(nv.x).ok \/ ~Float(nv.y).ok
        THEN [err |-> "MalformedNumeric", val |-> 0]
        ELSE [err |-> "",
              val |-> haversine(Float(nu.x).val, Float(nu.y).val,
                                Float(nv.x).val, Float(nv.y).val)]

\* Mutant of ResolveLength: the fallback is taken for every length <= 0.
ResolveLength_nonpositive(g, u, v, edata) ==
    LET e == ExplicitLength(edata)
    IN  IF ~e.ok THEN [err |-> "MalformedNumeric", val |-> 0, fallback |-> FALSE]
        ELSE IF e.val <= 0
        THEN LET f == FallbackLength(g, u, v)
             IN  [err |-> f.err, val |-> f.val, fallback |-> f.err = ""]
        ELSE [err |-> "", val |-> e.val, fallback |-> FALSE]

\* length as resolved by lines 143-147, with whether haversine was called.
ResolveLength(g, u, v, edata) ==
    LET e == ExplicitLength(edata)
    IN  IF ~e.ok THEN [err |-> "MalformedNumeric", val |-> 0, fallback |-> FALSE]
        ELSE IF e.val = 0
        THEN LET f == FallbackLength(g, u, v)
             IN  [err |-> f.err, val |-> f.val, fallback |-> f.err = ""]
        ELSE [err |-> "", val |-> e.val, fallback |-> FALSE]

\* freespeed = float(edata.get("walking_speed") or edata.get("maxspeed") or default_speed)
ResolveSpeed(edata, default_speed) ==
    Float(Or(Or(edata.walking_speed, edata.maxspeed), Num(default_speed)))

\* Mutant of Oneway: an absent flag expands to both directions.
Oneway_absent_is_two_way(edata) ==
    IF edata.oneway = None THEN FALSE
    ELSE StrLower(edata.oneway) \in {"true", "1", "yes"}

\* oneway = True if oneway_flag is None else str(oneway_flag).lower() in {...}
Oneway(edata) ==
    IF edata.oneway = None THEN TRUE
    ELSE StrLower(edata.oneway) \in {"true", "1", "yes"}

\* One iteration of the edge loop: the error raised, the root and the
\* sequence counter it leaves, and whether haversine was evaluated.
edge_iteration(g, root, nid_map, seq, link_prefix, default_speed, modes, e) ==
    LET src == nid_map[e.u]
        tgt == nid_map[e.v]
        len == ResolveLength(g, e.u, e.v, e.data)
        spd == ResolveSpeed(e.data, default_speed)
        fwd == add_link(root, link_prefix \o IntToStr(seq), src, tgt,
                        len.val, spd.val, modes)
        rev == add_link(fwd, link_prefix \o IntToStr(seq + 1), tgt, src,
                        len.val, spd.val, modes)
    IN  IF len.err # ""
        THEN [err |-> len.err, root |-> root, seq |-> seq, fallback |-> FALSE]
        ELSE IF ~spd.ok
        THEN [err |-> "MalformedNumeric", root |-> root, seq |-> seq,
              fallback |-> len.fallback]
        ELSE IF Oneway(e.data)
        THEN [err |-> "", root |-> fwd, seq |-> seq + 1, fallback |-> len.fallback]
        ELSE [err |-> "", root |-> rev, seq |-> seq + 2, fallback |-> len.fallback]

\* ----------------------------------------------------------- write XML + gz
\* pathlib on the final component of a path (the directory part is carried
\* through unchanged by every operation used here).
\* Mutant of Suffix: the text from the last dot on, wherever the dot is.
Suffix_from_last_dot(name) ==
    LET dots == {k \in 1..Len(name) : name[k] = "."}
        p == IF dots = {} THEN 0 ELSE CHOOSE k \in dots : \A j \in dots : j <= k
    IN  IF 1 <= p THEN SubSeq(name, p, Len(name)) ELSE <<>>

\* PurePath.suffix: name[i:] for i = name.rfind("."), if 0 < i < len(name) - 1.
Suffix(name) ==
    LET dots == {k \in 1..Len(name) : name[k] = "."}
        p == IF dots = {} THEN 0 ELSE CHOOSE k \in dots : \A j \in dots : j <= k
    IN  IF 1 < p /\ p < Len(name) THEN SubSeq(name, p, Len(name)) ELSE <<>>

\* PurePath.with_suffix(suffix) for a suffix that starts with a dot:
\* ValueError on an empty name, else the old suffix is replaced.
WithSuffix(name, suffix) ==
    IF name = <<>> THEN [ok |-> FALSE, name |-> name]
    ELSE [ok |-> TRUE,
          name |-> SubSeq(name, 1, Len(name) - Len(Suffix(name))) \o suffix]

\* Mutant of ResolvePaths: the ".gz" branch keeps the target as xml_path.
ResolvePaths_no_strip(target) ==
    IF Suffix(target) = DotGz
    THEN [ok |-> TRUE, xml |-> target, gz |-> target]
    ELSE LET w == WithSuffix(target, Suffix(target) \o DotGz)
         IN  [ok |-> w.ok, xml |-> target, gz |-> w.name]

\* Lines 183-188 of write_outputs: (xml_path, gz_path) from the target.
ResolvePaths(target) ==
    IF Suffix(target) = DotGz
    THEN [ok |-> TRUE, xml |-> SubSeq(target, 1, Len(target) - 3), gz |-> target]
    ELSE LET w == WithSuffix(target, Suffix(target) \o DotGz)
         IN  [ok |-> w.ok, xml |-> target, gz |-> w.name]

\* ET.indent + ET.tostring(root): one line per element, in document order.
NoAttrib == [id |-> <<>>]
TextLine(text) == [text |-> text, attrib |-> NoAttrib]
ElemLines(open, close, empty, child, elems) ==
    IF Len(elems) = 0 THEN <<TextLine(empty)>>
    ELSE <<TextLine(open)>>
         \o [k \in 1..Len(elems) |-> [text |-> child, attrib |-> elems[k]]]
         \o <<TextLine(close)>>
tostring(root) ==
    <<TextLine("<network>")>>
    \o ElemLines("<nodes>", "</nodes>", "<nodes />", "<node />", root.nodes)
    \o ElemLines("<links>", "</links>", "<links />", "<link />", root.links)
    \o <<TextLine("</network>")>>

\* xml_bytes = b'<?xml ...?>\n' + MATSim_DOCTYPE + body
XmlBytes(root) == <<TextLine(XML_DECLARATION), TextLine(MATSim_DOCTYPE)>> \o tostring(root)

\* gzip.open(path, "wb").write(data): the gzip stream is a header, the
\* payload and a trailer that records the payload's size.
GzipHeader == TextLine("1f8b")
GzipTrailer(n) == [text |-> "isize", attrib |-> [id |-> IntToStr(n)]]
GzipCompress(data) == <<GzipHeader>> \o data \o <<GzipTrailer(Len(data))>>

\* gzip decompression of a file's bytes: the payload, or a failure when the
\* stream is not a complete gzip stream.
GzipDecompress(bytes) ==
    IF /\ Len(bytes) >= 2
       /\ bytes[1] = GzipHeader
       /\ bytes[Len(bytes)] = GzipTrailer(Len(bytes) - 2)
    THEN [ok |-> TRUE, data |-> SubSeq(bytes, 2, Len(bytes) - 1)]
    ELSE [ok |-> FALSE, data |-> <<>>]

\* A file on disk: its path and the bytes it holds.
File(path, bytes) == [path |-> path, bytes |-> bytes]

\* Path.write_bytes / gzip.open(...).write: the file at `path` is replaced.
WriteFile(fs, file) == {f \in fs : f.path # file.path} \cup {file}

\* What an I/O failure in the middle of a write leaves: a truncated file.
Truncated(bytes) == SubSeq(bytes, 1, Len(bytes) - 1)

\* ------------------------------------------------------------------ inputs
\* A GraphML file: unreadable, or a graph with its nodes (id, attributes) and
\* edges (u, v, attributes) in iteration order.
Unreadable == [readable |-> FALSE, nodes |-> <<>>, edges |-> <<>>]
Graph(nodes, edges) == [readable |-> TRUE, nodes |-> nodes, edges |-> edges]

Deg(d) == Num(d * UNIT)
NoAttrs == [x |-> None, y |-> None, lon |-> None, lat |-> None, lng |-> None]
XY(c) == [NoAttrs EXCEPT !.x = Deg(c[1]), !.y = Deg(c[2])]
LonLat(c) == [NoAttrs EXCEPT !.lon = Deg(c[1]), !.lat = Deg(c[2])]
LngLat(c) == [NoAttrs EXCEPT !.lng = Deg(c[1]), !.lat = Deg(c[2])]

\* Coordinates in whole degrees: distinct points, and a zero in either place.
CoordPairs == {<<1, 1>>, <<2, 1>>, <<0, 1>>, <<1, 0>>}

NodeAttrChoices ==
    {XY(c) : c \in CoordPairs} \cup {LonLat(c) : c \in CoordPairs}
    \cup {LngLat(c) : c \in CoordPairs}
    \cup {NoAttrs,
          [XY(<<1, 1>>) EXCEPT !.x = Str("bad")],
          [XY(<<0, 1>>) EXCEPT !.lon = Deg(2), !.lat = Deg(2)]}

\* The k-th node of a graph is named "k" in both graphs.
NodeId(k) == IntToStr(k)
StdCoord(k) == <<k % 3, 1>>

\* Node lists: every node standard (x/y), or one node drawn from the choices.
StdNodes(n, shape) ==
    [k \in 1..n |-> [id |-> NodeId(k),
                     attrs |-> CASE shape = "xy" -> XY(StdCoord(k))
                                 [] shape = "lonlat" -> LonLat(StdCoord(k))
                                 [] shape = "same" -> XY(<<1, 1>>)]]
RichNodes ==
    {[StdNodes(n, "xy") EXCEPT ![k].attrs = a] :
        <<n, k>> \in {nk \in (1..MaxNodes) \X (1..MaxNodes) : nk[2] <= nk[1]},
        a \in NodeAttrChoices}

NoData == [distance |-> None, length |-> None, walking_speed |-> None,
           maxspeed |-> None, oneway |-> None]
LengthData ==
    {[NoData EXCEPT !.distance = d, !.length = l] :
        d \in {None, Num(0), Num(2), Num(-2 * UNIT), Num(12 * UNIT + 3), Str("bad")},
        l \in {None, Num(7 * UNIT)}}
SpeedData ==
    {[NoData EXCEPT !.walking_speed = w, !.maxspeed = m] :
        w \in {None, Num(UNIT)},
        m \in {None, Num(20 * UNIT), Num(0), Str("bad")}}
OnewayValues ==
    {None, Str("true"), Str("True"), Str("1"), Str("YES"), Str("false"), Str("0"),
     Str("no"), Bool(TRUE), Bool(FALSE), Num(UNIT)}
OnewayData == {[NoData EXCEPT !.oneway = o] : o \in OnewayValues}
EdgeDataChoices ==
    LengthData \cup SpeedData \cup OnewayData
    \cup {[d EXCEPT !.oneway = Bool(FALSE)] : d \in LengthData}

Edge(u, v, data) == [u |-> NodeId(u), v |-> NodeId(v), data |-> data]

\* Edge lists over n nodes: plain edges 1 -> n, one of them replaced by an
\* edge between any of the end nodes with data drawn from the choices.
PlainEdges(n, m) == [k \in 1..m |-> Edge(1, n, NoData)]
RichEdges(n) ==
    {<<>>} \cup
    {[PlainEdges(n, m) EXCEPT ![k] = Edge(uv[1], uv[2], d)] :
        <<m, k>> \in {mk \in (1..MaxEdges) \X (1..MaxEdges) : mk[2] <= mk[1]},
        uv \in {<<1, n>>, <<n, 1>>, <<1, 1>>},
        d \in EdgeDataChoices}

NodeRichGraphs ==
    {Graph(ns, es) : ns \in RichNodes, es \in {PlainEdges(1, m) : m \in 0..MaxEdges}}
    \cup {Graph(ns, PlainEdges(Len(ns), m)) : ns \in RichNodes, m \in 1..MaxEdges}
EdgeRichGraphs ==
    UNION {{Graph(StdNodes(n, shape), es) : es \in RichEdges(n)} :
           <<n, shape>> \in (1..MaxNodes) \X {"xy", "lonlat", "same"}}
RichGraphs == NodeRichGraphs \cup EdgeRichGraphs

StdGraph == Graph(StdNodes(2, "xy"), <<Edge(1, 2, NoData)>>)
PoorGraphs == {Unreadable, Graph(<<>>, <<>>), StdGraph}

\* Node ids as GraphML allows them, an apostrophe included: a plain id, an id
\* that ends in an apostrophe, and ids that go on after the apostrophe.
IdChoices ==
    {<<"1">>, <<"2">>, <<"1", "'">>, <<"1", "'", "]">>,
     <<"1", "'", "]", "[", ".", "=", "'">>}

\* Graphs whose nodes are named from the choices (a graph names each node
\* once), with x/y coordinates and plain edges from the first node to the last.
IdNodeLists ==
    {ids \in UNION {[1..n -> IdChoices] : n \in 1..MaxNodes} :
        \A j, k \in 1..Len(ids) : j # k => ids[j] # ids[k]}
IdGraphs ==
    {Graph([k \in 1..Len(ids) |-> [id |-> ids[k], attrs |-> XY(StdCoord(k))]],
           [k \in 1..m |-> [u |-> ids[1], v |-> ids[Len(ids)], data |-> NoData]]) :
        ids \in IdNodeLists, m \in 0..MaxEdges}

\* Graphs over two standard nodes with up to MaxLinkEdges edges, each in
\* either direction and one-way by default, by "yes" or not at all.
LinkEdgeChoices ==
    {Edge(uv[1], uv[2], [NoData EXCEPT !.oneway = o]) :
        uv \in {<<1, 2>>, <<2, 1>>}, o \in {None, Str("yes"), Str("false")}}
LinkGraphs ==
    {Graph(StdNodes(2, "xy"), es) :
        es \in UNION {[1..m -> LinkEdgeChoices] : m \in 0..MaxLinkEdges}}

\* Output names: every name of at most MaxNameLen characters over the
\* alphabet, "." alone excepted (Path normalises it to the empty name).
NameChars == {"n", ".", "g", "z"}
TargetNames ==
    UNION {[1..n -> NameChars] : n \in 0..MaxNameLen} \ {<<".">>}
StdTarget == <<"n", ".", "x">>

\* ------------------------------------------------------------------- state
VARIABLES
    args,             \* parse_args(): the two GraphML files and the output path
    drive_g, walk_g,  \* main: the graphs as loaded (Unreadable before)
    root,             \* the merged network element tree
    call,             \* the graph_to_matsim invocation running: "drive", "walk"
    nid_map,          \* graph_to_matsim: nid -> pid
    i,                \* graph_to_matsim: position of the running loop
    seq,              \* graph_to_matsim: the link sequence counter
    xml_path, gz_path, xml_bytes,   \* write_outputs: its locals
    files,            \* the files this run has written
    haversine_calls,  \* how many times haversine has been evaluated
    error,            \* the error that ended the run ("" for none)
    pc,               \* where the run is
    baseline_dir, preference_dir,   \* compare_runs: the two run directories
    kpi_dir,          \* compare_runs: the files in <output_dir>/temp/temp_kpis
    baseline_kpi_file, preference_kpi_file,   \* compare_runs: its locals
    baseline_kpis, preference_kpis,
    cmp_pc            \* where compare_runs is

net_vars == <<args, drive_g, walk_g, root, call, nid_map, i, seq,
              xml_path, gz_path, xml_bytes, files, haversine_calls, error, pc>>
cmp_vars == <<baseline_dir, preference_dir, kpi_dir, baseline_kpi_file,
              preference_kpi_file, baseline_kpis, preference_kpis, cmp_pc>>
vars == <<net_vars, cmp_vars>>

\* ------------------------------------------------------- compare_drt_runs
\* A MATSim output directory: its path, the runId its stats files carry, and
\* whether the three stats files are there and load.
RunIds == {IntToStr(k) : k \in 1..MaxRunIds}
RunDirs(path) ==
    {[path |-> path, runId |-> r, complete |-> c] : r \in RunIds, c \in BOOLEAN}
NoRunDir == [path |-> "", runId |-> <<>>, complete |-> FALSE]

\* The table aggregate_kpis merges from the stats of a directory (its rows
\* are that run's), and None for a table that is not there.
SummaryOf(dir) == [runId |-> dir.runId, rows |-> dir.path]
NoFrame == [runId |-> <<>>, rows |-> "None"]
NoPath == <<>>

\* f"{run_id}_summary_kpis.csv"
SummaryName(run_id) == run_id \o <<"_summary_kpis.csv">>

\* aggregate_kpis(input_dir, output_dir): False when a stats file is missing
\* or does not load; otherwise the summary is written to
\* output_dir / f"{run_id}_summary_kpis.csv" and the result is True.
aggregate_kpis(input_dir, output_dir) ==
    IF ~input_dir.complete THEN [ok |-> FALSE, dir |-> output_dir]
    ELSE [ok |-> TRUE,
          dir |-> WriteFile(output_dir,
                            File(SummaryName(input_dir.runId), SummaryOf(input_dir)))]

\* kpi_dir.glob("*_summary_kpis.csv"): the paths that match.
glob(dir) ==
    {f.path : f \in {g \in dir : /\ g.path # <<>>
                                 /\ g.path[Len(g.path)] = "_summary_kpis.csv"}}

\* generate_kpis_if_needed(directory, temp_dir): the directory it leaves and
\* the path it returns (None when aggregate_kpis fails).  kpi_files[0] is the
\* first path in the order the file system lists the directory, which can be
\* any of the matches.
generate_kpis_if_needed(directory, dir) ==
    LET a == aggregate_kpis(directory, dir)
    IN  IF ~a.ok \/ glob(a.dir) = {} THEN {[dir |-> a.dir, file |-> NoPath]}
        ELSE {[dir |-> a.dir, file |-> f] : f \in glob(a.dir)}

\* load_kpi_summary(kpi_file): the table in the file as it is when read, or
\* None when pd.read_csv raises.
load_kpi_summary(dir, kpi_file) ==
    {NoFrame} \cup {f.bytes : f \in {g \in dir : g.path = kpi_file}}

\* What <output_dir>/temp/temp_kpis holds when compare_runs starts: nothing,
\* a summary an earlier comparison left there, or a file of another kind.
InitialKpiDirs ==
    {{}} \cup {{File(<<"n", "o", "t", "e", "s", ".txt">>, NoFrame)}}
    \cup {{File(SummaryName(r), [runId |-> r, rows |-> "earlier"])} :
            r \in RunIds \cup {<<"0">>}}

CompareIdle ==
    /\ baseline_dir = NoRunDir
    /\ preference_dir = NoRunDir
    /\ kpi_dir = {}
    /\ baseline_kpi_file = NoPath
    /\ preference_kpi_file = NoPath
    /\ baseline_kpis = NoFrame
    /\ preference_kpis = NoFrame
    /\ cmp_pc = "idle"

\* ------------------------------------------------------------ combine: main
EmptyMap == [n \in {} |-> <<>>]

InitLocals ==
    /\ drive_g = Unreadable
    /\ walk_g = Unreadable
    /\ root = build_network_root
    /\ call = "none"
    /\ nid_map = EmptyMap
    /\ i = 0
    /\ seq = 0
    /\ xml_path = <<>>
    /\ gz_path = <<>>
    /\ xml_bytes = <<>>
    /\ files = {}
    /\ haversine_calls = 0
    /\ error = ""
    /\ pc = "read_drive"

\* The command lines checked: a rich drive graph with a plain walk graph, a
\* plain drive graph with a rich walk graph, and plain graphs with every
\* output name.
Inputs ==
    {[drive_graphml |-> d, walk_graphml |-> w, output |-> StdTarget] :
        d \in RichGraphs, w \in PoorGraphs}
    \cup {[drive_graphml |-> d, walk_graphml |-> w, output |-> StdTarget] :
        d \in PoorGraphs, w \in RichGraphs}
    \cup {[drive_graphml |-> StdGraph, walk_graphml |-> StdGraph, output |-> t] :
        t \in TargetNames}

Init == args \in Inputs /\ InitLocals /\ CompareIdle

\* The graph the running graph_to_matsim invocation converts.
G == IF call = "drive" THEN drive_g ELSE walk_g

Fail(kind) == error' = kind /\ pc' = "failed"

\* ------------------------------------------------------------------ actions
\* main, line 222: drive_g = read_graph(args.drive_graphml); sys.exit on any
\* exception.
ReadDrive ==
    /\ pc = "read_drive"
    /\ IF args.drive_graphml.readable
       THEN drive_g' = args.drive_graphml /\ pc' = "read_walk" /\ UNCHANGED error
       ELSE Fail("UnreadableSource") /\ UNCHANGED drive_g
    /\ UNCHANGED <<cmp_vars, args, walk_g, root, call, nid_map, i, seq, xml_path, gz_path,
                   xml_bytes, files, haversine_calls>>

\* Mutant of ReadWalk: a read failure is swallowed and the run goes on
\* without the walk graph.
ReadWalk_swallow ==
    /\ pc = "read_walk"
    /\ walk_g' = args.walk_graphml
    /\ pc' = "build_root"
    /\ UNCHANGED <<cmp_vars, args, drive_g, root, call, nid_map, i, seq, xml_path, gz_path,
                   xml_bytes, files, haversine_calls, error>>

\* main, line 223.
ReadWalk ==
    /\ pc = "read_walk"
    /\ IF args.walk_graphml.readable
       THEN walk_g' = args.walk_graphml /\ pc' = "build_root" /\ UNCHANGED error
       ELSE Fail("UnreadableSource") /\ UNCHANGED walk_g
    /\ UNCHANGED <<cmp_vars, args, drive_g, root, call, nid_map, i, seq, xml_path, gz_path,
                   xml_bytes, files, haversine_calls>>

\* main, line 225.
BuildRoot ==
    /\ pc = "build_root"
    /\ root' = build_network_root
    /\ pc' = "call_drive"
    /\ UNCHANGED <<cmp_vars, args, drive_g, walk_g, call, nid_map, i, seq, xml_path, gz_path,
                   xml_bytes, files, haversine_calls, error>>

\* main, lines 226 and 227: enter graph_to_matsim (line 119: nid_map = {}).
CallGraphToMatsim ==
    /\ pc \in {"call_drive", "call_walk"}
    /\ call' = IF pc = "call_drive" THEN "drive" ELSE "walk"
    /\ nid_map' = EmptyMap
    /\ i' = 1
    /\ pc' = "nodes"
    /\ UNCHANGED <<cmp_vars, args, drive_g, walk_g, root, seq, xml_path, gz_path, xml_bytes,
                   files, haversine_calls, error>>

\* graph_to_matsim, lines 122-136: one iteration of the node loop.
NodeStep ==
    /\ pc = "nodes"
    /\ i <= Len(G.nodes)
    /\ LET node == G.nodes[i]
           r == node_iteration(root, NodePrefix(call), node.id, node.attrs)
       IN  /\ nid_map' = [n \in DOMAIN nid_map \cup {node.id} |->
                            IF n = node.id THEN Pid(NodePrefix(call), node.id)
                            ELSE nid_map[n]]
           /\ root' = r.root
           /\ IF r.err = "" THEN i' = i + 1 /\ UNCHANGED <<error, pc>>
              ELSE Fail(r.err) /\ UNCHANGED i
    /\ UNCHANGED <<cmp_vars, args, drive_g, walk_g, call, seq, xml_path, gz_path, xml_bytes,
                   files, haversine_calls>>

\* Mutant of LinksBegin: the counter is not set back at line 139 and runs on
\* from the previous invocation.
LinksBegin_keep_seq ==
    /\ pc = "nodes"
    /\ i > Len(G.nodes)
    /\ i' = 1
    /\ pc' = "links"
    /\ UNCHANGED <<cmp_vars, args, drive_g, walk_g, root, call, nid_map, seq, xml_path, gz_path,
                   xml_bytes, files, haversine_calls, error>>

\* graph_to_matsim, line 139: the node loop is over; seq = 0.
LinksBegin ==
    /\ pc = "nodes"
    /\ i > Len(G.nodes)
    /\ seq' = 0
    /\ i' = 1
    /\ pc' = "links"
    /\ UNCHANGED <<cmp_vars, args, drive_g, walk_g, root, call, nid_map, xml_path, gz_path,
                   xml_bytes, files, haversine_calls, error>>

\* graph_to_matsim, lines 140-159: one iteration of the edge loop.
EdgeStep ==
    /\ pc = "links"
    /\ i <= Len(G.edges)
    /\ LET r == edge_iteration(G, root, nid_map, seq, LinkPrefix(call),
                               DefaultSpeed(call), Modes(call), G.edges[i])
       IN  /\ root' = r.root
           /\ seq' = r.seq
           /\ haversine_calls' = haversine_calls + (IF r.fallback THEN 1 ELSE 0)
           /\ IF r.err = "" THEN i' = i + 1 /\ UNCHANGED <<error, pc>>
              ELSE Fail(r.err) /\ UNCHANGED i
    /\ UNCHANGED <<cmp_vars, args, drive_g, walk_g, call, nid_map, xml_path, gz_path,
                   xml_bytes, files>>

\* graph_to_matsim returns to main.
Return ==
    /\ pc = "links"
    /\ i > Len(G.edges)
    /\ pc' = IF call = "drive" THEN "call_walk" ELSE "write_outputs"
    /\ UNCHANGED <<cmp_vars, args, drive_g, walk_g, root, call, nid_map, i, seq, xml_path,
                   gz_path, xml_bytes, files, haversine_calls, error>>

\* write_outputs, lines 183-198: the two paths (with_suffix raises ValueError
\* on an empty name) and the payload.
WriteOutputsBegin ==
    /\ pc = "write_outputs"
    /\ LET p == ResolvePaths(args.output)
       IN  IF p.ok
           THEN /\ xml_path' = p.xml
                /\ gz_path' = p.gz
                /\ xml_bytes' = XmlBytes(root)
                /\ pc' = "write_xml"
                /\ UNCHANGED error
           ELSE Fail("ValueError") /\ UNCHANGED <<xml_path, gz_path, xml_bytes>>
    /\ UNCHANGED <<cmp_vars, args, drive_g, walk_g, root, call, nid_map, i, seq, files,
                   haversine_calls>>

\* The ways a file write ends: done, refused on open (nothing on disk), or
\* broken off after the file was created (a truncated file on disk).
IoOutcomes == {"ok", "open_error", "write_error"}

\* write_outputs, lines 200-201: xml_path.write_bytes(xml_bytes).
WriteXml ==
    /\ pc = "write_xml"
    /\ \E io \in IoOutcomes :
        /\ files' = CASE io = "ok" -> WriteFile(files, File(xml_path, xml_bytes))
                      [] io = "open_error" -> files
                      [] io = "write_error" ->
                           WriteFile(files, File(xml_path, Truncated(xml_bytes)))
        /\ IF io = "ok" THEN pc' = "write_gz" /\ UNCHANGED error ELSE Fail("OSError")
    /\ UNCHANGED <<cmp_vars, args, drive_g, walk_g, root, call, nid_map, i, seq, xml_path,
                   gz_path, xml_bytes, haversine_calls>>

\* write_outputs, lines 203-205: gzip.open(gz_path, "wb").write(xml_bytes).
WriteGz ==
    /\ pc = "write_gz"
    /\ \E io \in IoOutcomes :
        /\ files' = CASE io = "ok" -> WriteFile(files, File(gz_path, GzipCompress(xml_bytes)))
                      [] io = "open_error" -> files
                      [] io = "write_error" ->
                           WriteFile(files, File(gz_path, Truncated(GzipCompress(xml_bytes))))
        /\ IF io = "ok" THEN pc' = "done" /\ UNCHANGED error ELSE Fail("OSError")
    /\ UNCHANGED <<cmp_vars, args, drive_g, walk_g, root, call, nid_map, i, seq, xml_path,
                   gz_path, xml_bytes, haversine_calls>>

Next ==
    \/ ReadDrive \/ ReadWalk \/ BuildRoot \/ CallGraphToMatsim
    \/ NodeStep \/ LinksBegin \/ EdgeStep \/ Return
    \/ WriteOutputsBegin \/ WriteXml \/ WriteGz

Spec == Init /\ [][Next]_vars

\* The same program on graphs with unusual node ids and with several edges.
MergeInputs ==
    {[drive_graphml |-> d, walk_graphml |-> w, output |-> StdTarget] :
        d \in IdGraphs \cup LinkGraphs, w \in PoorGraphs}
    \cup {[drive_graphml |-> d, walk_graphml |-> w, output |-> StdTarget] :
        d \in PoorGraphs, w \in IdGraphs \cup LinkGraphs}
InitMerge == args \in MergeInputs /\ InitLocals /\ CompareIdle
SpecMerge == InitMerge /\ [][Next]_vars

\* ---------------------------------------------------- compare_runs (actions)
\* compare_runs is entered with two run directories; combine.py is not
\* running.
InitCompare ==
    /\ args = [drive_graphml |-> Unreadable, walk_graphml |-> Unreadable,
               output |-> <<>>]
    /\ InitLocals
    /\ baseline_dir \in RunDirs("baseline")
    /\ preference_dir \in RunDirs("preference")
    /\ kpi_dir \in InitialKpiDirs
    /\ baseline_kpi_file = NoPath
    /\ preference_kpi_file = NoPath
    /\ baseline_kpis = NoFrame
    /\ preference_kpis = NoFrame
    /\ cmp_pc = "generate_baseline"

\* Line 58: baseline_kpi_file = generate_kpis_if_needed(baseline_dir, temp_dir)
GenerateBaselineKpis ==
    /\ cmp_pc = "generate_baseline"
    /\ \E o \in generate_kpis_if_needed(baseline_dir, kpi_dir) :
          /\ kpi_dir' = o.dir
          /\ baseline_kpi_file' = o.file
    /\ cmp_pc' = "generate_preference"
    /\ UNCHANGED <<net_vars, baseline_dir, preference_dir, preference_kpi_file,
                   baseline_kpis, preference_kpis>>

\* Line 59: preference_kpi_file = generate_kpis_if_needed(preference_dir, temp_dir)
GeneratePreferenceKpis ==
    /\ cmp_pc = "generate_preference"
    /\ \E o \in generate_kpis_if_needed(preference_dir, kpi_dir) :
          /\ kpi_dir' = o.dir
          /\ preference_kpi_file' = o.file
    /\ cmp_pc' = "check_files"
    /\ UNCHANGED <<net_vars, baseline_dir, preference_dir, baseline_kpi_file,
                   baseline_kpis, preference_kpis>>

\* Lines 61-63: return False when either summary could not be generated.
CheckKpiFiles ==
    /\ cmp_pc = "check_files"
    /\ cmp_pc' = IF baseline_kpi_file = NoPath \/ preference_kpi_file = NoPath
                 THEN "failed" ELSE "load_baseline"
    /\ UNCHANGED <<net_vars, baseline_dir, preference_dir, kpi_dir, baseline_kpi_file,
                   preference_kpi_file, baseline_kpis, preference_kpis>>

\* Line 66: baseline_kpis = load_kpi_summary(baseline_kpi_file)
LoadBaselineKpis ==
    /\ cmp_pc = "load_baseline"
    /\ baseline_kpis' \in load_kpi_summary(kpi_dir, baseline_kpi_file)
    /\ cmp_pc' = "load_preference"
    /\ UNCHANGED <<net_vars, baseline_dir, preference_dir, kpi_dir, baseline_kpi_file,
                   preference_kpi_file, preference_kpis>>

\* Line 67: preference_kpis = load_kpi_summary(preference_kpi_file)
LoadPreferenceKpis ==
    /\ cmp_pc = "load_preference"
    /\ preference_kpis' \in load_kpi_summary(kpi_dir, preference_kpi_file)
    /\ cmp_pc' = "check_frames"
    /\ UNCHANGED <<net_vars, baseline_dir, preference_dir, kpi_dir, baseline_kpi_file,
                   preference_kpi_file, baseline_kpis>>

\* Lines 69-71: return False when either table did not load; otherwise the
\* comparison is computed from baseline_kpis and preference_kpis.
CheckKpiFrames ==
    /\ cmp_pc = "check_frames"
    /\ cmp_pc' = IF baseline_kpis = NoFrame \/ preference_kpis = NoFrame
                 THEN "failed" ELSE "compare"
    /\ UNCHANGED <<net_vars, baseline_dir, preference_dir, kpi_dir, baseline_kpi_file,
                   preference_kpi_file, baseline_kpis, preference_kpis>>

CompareNext ==
    \/ GenerateBaselineKpis \/ GeneratePreferenceKpis \/ CheckKpiFiles
    \/ LoadBaselineKpis \/ LoadPreferenceKpis \/ CheckKpiFrames

SpecCompare == InitCompare /\ [][CompareNext]_vars

\* ================================================================== claims
\* A step that completes iteration i of the edge loop, and the links it added.
EdgeDone == pc = "links" /\ i <= Len(G.edges) /\ i' = i + 1
NewLinks == SubSeq(root'.links, Len(root.links) + 1, Len(root'.links))
SameButEnds(l1, l2) ==
    /\ l1.length = l2.length
    /\ l1.freespeed = l2.freespeed
    /\ l1.modes = l2.modes
    /\ l1.capacity = l2.capacity
    /\ l1.permlanes = l2.permlanes

\* The attribute values whose str() lower-cases to "true", "1" or "yes".
LowersToTrue ==
    {Str("true"), Str("True"), Str("TRUE"), Str("1"), Str("yes"), Str("Yes"),
     Str("YES"), Bool(TRUE)}

\* C1: every edge the edge loop converts yields exactly one link src -> tgt
\* when its oneway attribute is absent or lower-cases to "true", "1" or
\* "yes", and otherwise exactly two links, the second with from/to swapped
\* and length, freespeed, modes, capacity and permlanes equal to the first.
C1_OnewayExpansion ==
    [][EdgeDone =>
        LET e == G.edges[i]
            new == NewLinks
            src == NodePrefix(call) \o e.u
            tgt == NodePrefix(call) \o e.v
        IN  /\ Len(new) = IF e.data.oneway = None \/ e.data.oneway \in LowersToTrue
                          THEN 1 ELSE 2
            /\ new[1].from = src /\ new[1].to = tgt
            /\ Len(new) = 2 =>
                 /\ new[2].from = tgt /\ new[2].to = src
                 /\ SameButEnds(new[1], new[2])]_vars

\* C1 witness: an edge 1 -> 2 marked oneway "false" has been converted into
\* a forward and a reverse link.
C1_Witness ==
    /\ pc = "links" /\ i = 2
    /\ G.edges[1].data.oneway = Str("false")
    /\ Len(root.links) = 2
    /\ root.links[2].from = root.links[1].to
    /\ root.links[1].from # root.links[1].to

\* C2: once both graphs are merged, no two node elements share an id.
Merged ==
    \/ pc \in {"write_outputs", "write_xml", "write_gz", "done"}
    \/ pc = "failed" /\ error \in {"OSError", "ValueError"}
C2_NodeIdsUnique ==
    Merged => \A j, k \in 1..Len(root.nodes) :
                 j # k => root.nodes[j].id # root.nodes[k].id

\* C2 witness: both graphs name a node "1"; the merged network holds v_1
\* and p_1.
C2_Witness ==
    /\ pc = "write_outputs"
    /\ \E j, k \in 1..Len(root.nodes) :
         /\ root.nodes[j].id = <<"v", "_", "1">>
         /\ root.nodes[k].id = <<"p", "_", "1">>

\* The nodes of g carry numeric, nonzero coordinates under exactly one of the
\* recognised attribute sets, and the coordinates so given.
OneCoordSet(attrs) ==
    LET sets == {<<"x", "y">>, <<"lon", "lat">>, <<"lng", "lat">>}
        given == {c \in sets : attrs[c[1]] # None /\ attrs[c[2]] # None}
    IN  /\ Cardinality(given) = 1
        /\ \A k \in {"x", "y", "lon", "lat", "lng"} :
             attrs[k] # None => attrs[k].t = "num" /\ attrs[k].n # 0
GivenCoord(attrs) ==
    IF attrs.x # None THEN <<attrs.x.n, attrs.y.n>>
    ELSE IF attrs.lon # None THEN <<attrs.lon.n, attrs.lat.n>>
    ELSE <<attrs.lng.n, attrs.lat.n>>

\* Every edge of g leaves its length out (or gives zero) and carries no
\* other attribute.
NoLengthEdges(g) ==
    \A k \in 1..Len(g.edges) :
        \E d \in {None, Num(0)} : g.edges[k].data = [NoData EXCEPT !.distance = d]

\* C3: for a graph whose nodes carry their coordinates under a recognised
\* attribute set and whose edges leave the length out, graph_to_matsim does
\* not fail, and the link of every converted edge has the haversine distance
\* between its end nodes' coordinates as length (and the default speed).
\* Stated for nonzero coordinates, which the node loop accepts.
C3_FallbackFromAnyCoordSet ==
    ( /\ call \in {"drive", "walk"}
      /\ G.readable
      /\ \A k \in 1..Len(G.nodes) : OneCoordSet(G.nodes[k].attrs)
      /\ NoLengthEdges(G) )
    =>
    /\ ~(pc = "failed" /\ error \in {"KeyError", "MissingCoordinate", "MalformedNumeric"})
    /\ pc = "links" =>
         \A k \in 1..(i - 1) :
            \E n \in 1..Len(root.links) :
               LET l == root.links[n]
                   e == G.edges[k]
                   cu == GivenCoord(NodeData(G, e.u).attrs)
                   cv == GivenCoord(NodeData(G, e.v).attrs)
               IN  /\ l.id = LinkPrefix(call) \o IntToStr(k - 1)
                   /\ l.from = NodePrefix(call) \o e.u
                   /\ l.to = NodePrefix(call) \o e.v
                   /\ l.freespeed = Format3(DefaultSpeed(call))
                   /\ l.length = Format3(haversine(cu[1], cu[2], cv[1], cv[2]))

\* The float a three-place decimal string denotes (what a reader of the
\* output file parses back).
Thousandths(n) == n * (UNIT \div 1000)

\* The explicit positive lengths an edge carries under `distance` or `length`.
PositiveLengths(edata) ==
    {v.n : v \in {w \in {edata.distance, edata.length} : w.t = "num" /\ w.n > 0}}

\* C4 as stated: every link of an edge that carries an explicit length L > 0
\* under `distance` or `length` has length L, and haversine is not evaluated.
C4_Original ==
    [][EdgeDone =>
        \A L \in PositiveLengths(G.edges[i].data) :
            /\ haversine_calls' = haversine_calls
            /\ \A n \in 1..Len(NewLinks) : Thousandths(NewLinks[n].length) = L]_vars

\* The edge's `distance` when that is a nonzero number, else its `length`
\* when `distance` is absent or zero and `length` is a nonzero number.
FirstNonzero(edata) ==
    IF edata.distance.t = "num" /\ edata.distance.n # 0 THEN {edata.distance.n}
    ELSE IF edata.distance \in {None, Num(0)} /\ edata.length.t = "num"
            /\ edata.length.n # 0
    THEN {edata.length.n}
    ELSE {}

\* C4 (amended): for an edge whose `distance` is a nonzero number L, or whose
\* `distance` is absent or zero and whose `length` is a nonzero number L, the
\* edge iteration never reads the end nodes' coordinates (no KeyError, no
\* haversine call) and every link it adds has length L to three decimals.
C4_ExplicitLength ==
    [][(pc = "links" /\ i <= Len(G.edges)) =>
        \A L \in FirstNonzero(G.edges[i].data) :
            /\ haversine_calls' = haversine_calls
            /\ error' # "KeyError"
            /\ i' = i + 1 =>
                 /\ Len(NewLinks) >= 1
                 /\ \A n \in 1..Len(NewLinks) : NewLinks[n].length = Format3(L)]_vars

\* C4 witness: an edge with distance 12.0006 between nodes that carry
\* lon/lat only has been converted; its link has length 12.001.
C4_Witness ==
    /\ pc = "links" /\ i = 2 /\ call = "drive"
    /\ G.nodes[1].attrs.x = None
    /\ G.edges[1].data.distance = Num(12 * UNIT + 3)
    /\ Len(root.links) >= 1
    /\ root.links[1].length = 12001
    /\ haversine_calls = 0

\* A speed attribute that is given: a nonzero number.
Given(v) == v.t = "num" /\ v.n # 0

\* C5: the free-flow speed of a link is the edge's walking_speed in the walk
\* graph and its maxspeed in the drive graph when that attribute is given,
\* and otherwise the default of the mode (1.4 walk, 15.0 car); the other
\* mode's attribute plays no part.
C5_ModeAppropriateSpeed ==
    [][EdgeDone =>
        LET d == G.edges[i].data
            own == IF call = "walk" THEN d.walking_speed ELSE d.maxspeed
            want == IF Given(own) THEN own.n
                    ELSE IF call = "walk" THEN WALK_DEFAULT_SPEED ELSE CAR_DEFAULT_SPEED
        IN  \A n \in 1..Len(NewLinks) : NewLinks[n].freespeed = Format3(want)]_vars

\* C6: when write_outputs has returned, the file at gz_path decompresses to
\* exactly the bytes of the file at xml_path, and those bytes start with the
\* XML declaration followed by the MATSim doctype.
C6_CompressedTwin ==
    pc = "done" =>
        \E fx, fg \in files :
            /\ fx.path = xml_path
            /\ fg.path = gz_path
            /\ GzipDecompress(fg.bytes).ok
            /\ GzipDecompress(fg.bytes).data = fx.bytes
            /\ Len(fx.bytes) >= 2
            /\ fx.bytes[1].text = XML_DECLARATION
            /\ fx.bytes[2].text = MATSim_DOCTYPE

\* C6 witness: a run given the target "n.gz" has written both files.
C6_Witness ==
    /\ pc = "done"
    /\ args.output = <<"n", ".", "g", "z">>
    /\ Cardinality(files) = 2
    /\ Len(xml_bytes) > 6

\* The name ends in ".gz"; the name without its last three characters.
EndsWithGz(name) == Len(name) >= 3 /\ SubSeq(name, Len(name) - 2, Len(name)) = DotGz
Stripped(name) == SubSeq(name, 1, Len(name) - 3)
PathsResolved ==
    \/ pc \in {"write_xml", "write_gz", "done"}
    \/ pc = "failed" /\ error = "OSError"

\* C7 as stated: a target ending in ".gz" gives gz_path = target and
\* xml_path = target without the suffix; any other target gives xml_path =
\* target and gz_path = target + ".gz"; the targets P and P.gz resolve to the
\* same pair; xml_path is never gz_path.
C7_Original ==
    PathsResolved =>
        LET t == args.output
            twin == ResolvePaths(t \o DotGz)
        IN  /\ EndsWithGz(t) => gz_path = t /\ xml_path = Stripped(t)
            /\ ~EndsWithGz(t) => xml_path = t /\ gz_path = t \o DotGz
            /\ twin.ok /\ twin.xml = xml_path /\ twin.gz = gz_path
            /\ xml_path # gz_path

\* C7 (amended): a target whose name ends in ".gz" after at least one other
\* character gives gz_path = target and xml_path = target without the
\* suffix; any other target with a non-empty name (the name ".gz" included)
\* gives xml_path = target and gz_path = target + ".gz", and an empty name
\* fails before anything is written; a target P of the second kind and P.gz
\* resolve to the same pair; xml_path is never gz_path.
C7_PathResolution ==
    LET t == args.output
        gzKind == EndsWithGz(t) /\ Len(t) > 3
        twin == ResolvePaths(t \o DotGz)
    IN  /\ PathsResolved =>
            /\ t # <<>>
            /\ gzKind => gz_path = t /\ xml_path = Stripped(t)
            /\ ~gzKind =>
                 /\ xml_path = t /\ gz_path = t \o DotGz
                 /\ twin.ok /\ twin.xml = xml_path /\ twin.gz = gz_path
            /\ xml_path # gz_path
        /\ (t = <<>> /\ pc = "failed") => (error = "ValueError" /\ files = {})

\* C7 witness: the target ".gz" has been resolved to (".gz", ".gz.gz").
C7_Witness ==
    /\ pc = "write_xml"
    /\ args.output = DotGz
    /\ xml_path = DotGz
    /\ gz_path = DotGz \o DotGz

\* C8: a file is written only after both graphs have been loaded and both
\* graph_to_matsim calls have returned (every node of both graphs is in the
\* merged network, every edge has its link); a run that fails on an
\* unreadable source, a missing coordinate or a malformed number has written
\* no file.
C8_NoOutputBeforeMerge ==
    /\ files # {} =>
         /\ drive_g.readable /\ walk_g.readable
         /\ call = "walk" /\ i > Len(walk_g.edges)
         /\ pc \in {"write_gz", "done", "failed"}
         /\ pc = "failed" => error = "OSError"
         /\ Len(root.nodes) = Len(drive_g.nodes) + Len(walk_g.nodes)
         /\ Len(root.links) >= Len(drive_g.edges) + Len(walk_g.edges)
    /\ (pc = "failed" /\ error \in {"UnreadableSource", "MissingCoordinate",
                                    "MalformedNumeric", "KeyError"})
         => files = {}

\* C8 witness: the drive graph is merged, the walk graph has a node without
\* coordinates; the run has failed and no file is written.
C8_Witness ==
    /\ pc = "failed" /\ error = "MissingCoordinate"
    /\ call = "walk"
    /\ Len(root.nodes) > 0 /\ Len(root.links) > 0
    /\ files = {}

\* C9: a run that fails leaves neither output file behind; in particular a
\* failure while the compressed file is written does not leave the complete
\* uncompressed file in place.  (The particular clause is the one stated.)
C9_AtomicOutputs ==
    pc = "failed" => ~\E f \in files : f.path = xml_path /\ f.bytes = xml_bytes

\* C10: every link of the merged network has a length > 0.
C10_PositiveLength ==
    \A n \in 1..Len(root.links) : root.links[n].length > 0

\* The ids of the node elements of the merged network.
NodeIds == {root.nodes[k].id : k \in 1..Len(root.nodes)}
HasPrefix(id, prefix) == Len(id) >= Len(prefix) /\ SubSeq(id, 1, Len(prefix)) = prefix

\* C11: whenever a link is added to the merged network, its from id and its
\* to id are ids of node elements already present, and both carry the node
\* prefix of the graph the edge came from.
C11_LinkEndsPresent ==
    [][\A n \in 1..Len(NewLinks) :
          /\ NewLinks[n].from \in NodeIds
          /\ NewLinks[n].to \in NodeIds
          /\ HasPrefix(NewLinks[n].from, NodePrefix(call))
          /\ HasPrefix(NewLinks[n].to, NodePrefix(call))]_vars


\* The graph an invocation converts, and how many of its edges have been
\* converted in the current state.
GraphOf(c) == IF c = "drive" THEN drive_g ELSE walk_g
Converted(c) ==
    IF call = c /\ pc = "links" THEN i - 1
    ELSE IF call = c /\ pc = "nodes" THEN 0
    ELSE IF c = "drive" /\ (pc = "call_walk" \/ call = "walk") THEN Len(drive_g.edges)
    ELSE IF c = "walk" /\ call = "walk" THEN Len(walk_g.edges)
    ELSE 0

\* The links an invocation has emitted (its modes value marks them), and the
\* end points its first n edges call for: src -> tgt, followed by tgt -> src
\* when the edge is not one-way.
LinksOf(c) == SelectSeq(root.links, LAMBDA l : l.modes = Modes(c))
IsOneway(e) == e.data.oneway = None \/ e.data.oneway \in LowersToTrue
RECURSIVE ExpectedEnds(_, _, _)
ExpectedEnds(g, prefix, n) ==
    IF n = 0 THEN <<>>
    ELSE LET e == g.edges[n]
             fwd == [from |-> prefix \o e.u, to |-> prefix \o e.v]
             rev == [from |-> prefix \o e.v, to |-> prefix \o e.u]
         IN  ExpectedEnds(g, prefix, n - 1)
             \o (IF IsOneway(e) THEN <<fwd>> ELSE <<fwd, rev>>)

\* C12: in every state of a run that has not failed, the links each
\* invocation has emitted are, in emission order, link_prefix + 0,
\* link_prefix + 1, ... without gap or repeat (each invocation counts from
\* 0), a reverse link directly after its forward link, as many links as
\* one-way edges plus twice the other edges converted; the drive links
\* precede the walk links and no two links of the network share an id.
C12_LinkIdSequence ==
    pc # "failed" =>
        /\ \A c \in {"drive", "walk"} :
              LET ls == LinksOf(c)
                  g == GraphOf(c)
                  n == Converted(c)
                  ends == ExpectedEnds(g, NodePrefix(c), n)
              IN  /\ Len(ls) = Cardinality({k \in 1..n : IsOneway(g.edges[k])})
                               + 2 * Cardinality({k \in 1..n : ~IsOneway(g.edges[k])})
                  /\ Len(ls) = Len(ends)
                  /\ \A k \in 1..Len(ls) :
                        /\ ls[k].id = LinkPrefix(c) \o IntToStr(k - 1)
                        /\ ls[k].from = ends[k].from
                        /\ ls[k].to = ends[k].to
        /\ root.links = LinksOf("drive") \o LinksOf("walk")
        /\ \A j, k \in 1..Len(root.links) :
              j # k => root.links[j].id # root.links[k].id

\* C12 witness: a drive graph with a two-way edge and then a one-way edge
\* and a walk graph with one edge are merged: car_0, car_1 (the reverse of
\* car_0), car_2, walk_0.
C12_Witness ==
    /\ pc = "write_outputs"
    /\ Len(drive_g.edges) = 2
    /\ [k \in 1..Len(root.links) |-> root.links[k].id]
         = <<<<"c", "a", "r", "_", "0">>, <<"c", "a", "r", "_", "1">>,
             <<"c", "a", "r", "_", "2">>, <<"w", "a", "l", "k", "_", "0">>>>
    /\ root.links[2].from = root.links[1].to
    /\ root.links[2].to = root.links[1].from
    /\ root.links[1].from # root.links[1].to

\* How many nodes of its graph an invocation has gone through in the current
\* state, and the prefixed ids of the first n source nodes in source order.
Visited(c) ==
    IF call = c /\ pc = "nodes" THEN i - 1
    ELSE IF call = c /\ pc = "links" THEN Len(GraphOf(c).nodes)
    ELSE IF c = "drive" /\ (pc = "call_walk" \/ call = "walk") THEN Len(drive_g.nodes)
    ELSE IF c = "walk" /\ call = "walk" THEN Len(walk_g.nodes)
    ELSE 0
SourceIds(c, n) == [k \in 1..n |-> NodePrefix(c) \o GraphOf(c).nodes[k].id]

\* C13: in every state of a run that has not failed, the node elements of
\* the merged network are the source nodes gone through so far, each exactly
\* once (never left out, never twice), in source order, the drive nodes
\* first.
C13_EveryNodeOnce ==
    pc # "failed" =>
        [k \in 1..Len(root.nodes) |-> root.nodes[k].id]
            = SourceIds("drive", Visited("drive")) \o SourceIds("walk", Visited("walk"))

\* The recognised coordinate attribute sets, and those a node carries (both
\* attributes present) and carries as numbers.
CoordSets == {<<"x", "y">>, <<"lon", "lat">>, <<"lng", "lat">>}
CoordKeys == {"x", "y", "lon", "lat", "lng"}
HasPair(attrs, set) == attrs[set[1]] # None /\ attrs[set[2]] # None
NumericPair(attrs, set) == attrs[set[1]].t = "num" /\ attrs[set[2]].t = "num"

\* C14: an iteration of the node loop raises the missing-coordinate error
\* only for a node that carries none of the recognised attribute sets; a
\* node that carries a set, all its coordinate attributes numbers (a zero
\* included), is accepted, and the element added for it has the projection
\* of the longitude and latitude of one and the same set it carries.
C14_CoordinatesAccepted ==
    [][(pc = "nodes" /\ i <= Len(G.nodes)) =>
        LET attrs == G.nodes[i].attrs
            carried == {set \in CoordSets : HasPair(attrs, set)}
            numeric == \A key \in CoordKeys : attrs[key] # None => attrs[key].t = "num"
            added == root'.nodes[Len(root'.nodes)]
        IN  /\ (pc' = "failed" /\ error' = "MissingCoordinate") => carried = {}
            /\ (carried # {} /\ numeric) =>
                 /\ pc' = "nodes" /\ i' = i + 1
                 /\ Len(root'.nodes) = Len(root.nodes) + 1
                 /\ \E set \in carried :
                       <<added.x, added.y>>
                           = transform(attrs[set[1]].n, attrs[set[2]].n)]_vars

\* C15: when compare_runs goes on to compare, the table it holds as the
\* baseline is the summary of baseline_dir and the table it holds as the
\* preference run is the summary of preference_dir.
C15_RightSummaries ==
    cmp_pc = "compare" =>
        /\ baseline_kpis = SummaryOf(baseline_dir)
        /\ preference_kpis = SummaryOf(preference_dir)

====
